---- MODULE Spec2Model ----
(***************************************************************************)
(* The worker loop of src/app.py (bot_worker_thread) with the functions it *)
(* drives: fetch_news_from_duckduckgo, scrape_article_content,             *)
(* enhance_article_with_ai, get_sufficient_article_content,                *)
(* fetch_related_youtube_video, post_to_blogger_oauth, save_posted_url,    *)
(* and the controlling layer's buttons (streamlit_main) that share the     *)
(* stop event and the credentials with it.                                 *)
(*                                                                         *)
(* The three result lists the worker iterates (the search hits of an       *)
(* iteration, the links of a source page, the related hits of an           *)
(* aggregation) are read once, front to back.  The model keeps the number  *)
(* of elements not yet visited and draws each element when the loop        *)
(* visits it.                                                              *)
(***************************************************************************)
EXTENDS Integers, Sequences, FiniteSets, TLC

\* ------------------------------------------------------------ bounds ----
\* The worker starts at most MaxIter iterations that pass the credential check.
MaxIter == 7
\* The search provider / a source page returns at most MaxResults entries.
MaxResults == 2
\* A source page links to at most MaxLinks articles.
MaxLinks == 3
\* Iterations left to the worker where the fair specification takes it up.
FairIterations == 2
\* Iterations left to the worker where the late specification takes it up.
LateIterations == 3
\* The longest query handed to a discovery, in terms.
MaxQueryTerms == 5
\* The search page a discovery parses holds at most MaxProviderResults results.
MaxProviderResults == 4
\* The longest label list handed to a post.
MaxLabels == 18
\* Worker threads the controlling layer starts in a session.
MaxThreads == 3
\* Largest max_articles_to_combine the aggregation is tried with (the sidebar
\* allows 1 to 5).
MaxArticles == 3

\* ------------------------------------------------- program constants ----
max_errors_in_row == 7
NumQueries == 12
NumResults == 3
MaxSubArticles == 2
MinSingleWords == 100
MinRelatedWords == 200
MaxRelatedCandidates == 5
DEFAULT_MIN_POST_WORD_COUNT == 1500
DEFAULT_MAX_ARTICLES_TO_COMBINE == 3
PauseSeconds == 60
BackoffSeconds == 300
ShortWaitSeconds == 900

\* ----------------------------------------------------------- inputs ----
\* "home" has path depth <= 1 (is_likely_homepage).
URLs == {"home", "art1", "art2"}
HomepageUrls == {"home"}
\* Word counts a fetched page or a rewritten body can have.
WordCounts == {50, 150, 800, 1600}
\* post_interval_minutes as entered in the sidebar (min_value 5).
PostIntervals == {20}
LatePostIntervals == {10, 20}
\* The persisted ledger file when the worker starts.
InitialFiles == {<< >>, <<"home">>}
\* min_post_word_count as entered in the sidebar (min_value 500, step 100).
MinWordChoices == {800, 1500}

None == [url |-> "", word_count |-> 0]
Article(u, w) == [url |-> u, word_count |-> w]

Min(a, b) == IF a <= b THEN a ELSE b

VARIABLES
  pc,                              \* position of the worker in bot_worker_thread
  stop_event,                      \* stop_event_global.is_set()
  credentials,                     \* st.session_state.credentials: "valid", "invalid" (expired), "none"
  gemini_key,                      \* _GEMINI_API_KEY_GLOBAL is set
  post_interval_minutes,           \* config['post_interval_minutes']
  min_post_word_count,             \* config['min_post_word_count']
  max_articles_to_combine,         \* config['max_articles_to_combine']
  posted_urls,                     \* the in-memory ledger
  posted_file,                     \* the lines of POSTED_URLS_FILE
  error_count,
  current_query_index,
  search_query,                    \* index in search_queries of the query picked last, -1 before the first
  sites_left,                      \* entries of potential_sites_from_ddg not yet visited
  ddg_url,
  primary_article_data,
  ai_keywords_malformed,           \* the rewritten record's ai_keywords holds a non-string
  subs_left,                       \* entries of source.articles not yet visited
  processed_from_source,
  all_articles_data,
  current_total_words,
  related_left,                    \* entries of additional_potential_sites not yet visited
  related_urls_in_this_batch,
  posted_article_in_this_iteration,
  wait_timeout,                    \* timeout of the stop_event.wait the worker is blocked in, 0 if none
  call,                            \* the remote call made by the worker's last step, "none" if it made none
  fault,                           \* the fault the worker's last step met and handled in place, "none" if none
  publish_result,                  \* what the post_to_blogger_oauth call of the last step returned, "none" otherwise
  errors_before_post,              \* error_count as that call found it
  platform_fault_in_iteration,     \* a publish of this iteration failed with a non-auth HttpError
  auth_fault_pending,              \* a publish hit a 401-class fault and nobody re-authenticated since
  publish_count,                   \* per URL: number of successfully published batches holding it
  bot_running,                     \* st.session_state.bot_running
  bot_thread,                      \* st.session_state.bot_thread: a thread of Threads, 0 for None
  thread_pc,                       \* per thread: "unborn", "loop", "call", "wait" or "finished"
  ui_pc,                           \* the Stop handler: "joining" while it is in bot_thread.join
  fn,                              \* the function tried on its own, "none" in the loop's specifications
  fn_done,                         \* it has returned
  arg,                             \* what it was called with
  ret                              \* what it returned: [raised, none, value]

vars == << pc, stop_event, credentials, gemini_key, post_interval_minutes,
           min_post_word_count, max_articles_to_combine,
           posted_urls, posted_file, error_count, current_query_index,
           search_query,
           sites_left, ddg_url, primary_article_data, ai_keywords_malformed,
           subs_left, processed_from_source, all_articles_data,
           current_total_words, related_left, related_urls_in_this_batch,
           posted_article_in_this_iteration, wait_timeout, call, fault,
           publish_result, errors_before_post, platform_fault_in_iteration,
           auth_fault_pending, publish_count,
           bot_running, bot_thread, thread_pc, ui_pc,
           fn, fn_done, arg, ret >>

\* Variable groups, for UNCHANGED.
config_vars == << gemini_key, post_interval_minutes, min_post_word_count,
                  max_articles_to_combine >>
ledger_vars == << posted_urls, posted_file, publish_count >>
control_vars == << stop_event, credentials, auth_fault_pending >>
cand_vars == << sites_left, ddg_url, primary_article_data, ai_keywords_malformed >>
source_vars == << subs_left, processed_from_source >>
iter_vars == << posted_article_in_this_iteration, publish_result,
                errors_before_post, platform_fault_in_iteration >>
ctl_vars == << bot_running, bot_thread, thread_pc, ui_pc >>
query_vars == << current_query_index, search_query >>
fn_vars == << fn, fn_done, arg, ret >>
agg_vars == << all_articles_data, current_total_words, related_left,
               related_urls_in_this_batch >>

\* --------------------------------------------------- pure functions ----
RECURSIVE SeqToSet(_)
SeqToSet(s) == IF s = << >> THEN {} ELSE {Head(s)} \cup SeqToSet(Tail(s))

\* load_posted_urls: the set of the file's lines.
load_posted_urls(f) == SeqToSet(f)

\* scrape_article_content: page_words = -1 stands for a failed download or parse.
scrape_article_content(u, page_words) ==
  IF page_words < MinSingleWords
    THEN None
    ELSE Article(u, page_words)

PageOutcomes == {-1} \cup WordCounts

BatchUrls(batch) == {batch[i].url : i \in 1..Len(batch)}

RECURSIVE SumWords(_)
SumWords(batch) ==
  IF batch = << >> THEN 0 ELSE Head(batch).word_count + SumWords(Tail(batch))

\* The loop of lines 770-771: every member not yet in the ledger is appended to
\* the file (unless the write fails, which save_posted_url swallows) and added
\* to the in-memory set.
RECURSIVE SavedFile(_, _, _, _)
SavedFile(batch, posted, f, write_fails) ==
  IF batch = << >> THEN f
  ELSE LET u == Head(batch).url IN
       IF u \in posted
         THEN SavedFile(Tail(batch), posted, f, write_fails)
         ELSE SavedFile(Tail(batch), posted \cup {u},
                        IF u \in write_fails THEN f ELSE Append(f, u), write_fails)

\* Variant: only the primary article's URL is recorded.
LedgerAfterPost_primary_only(batch, posted) == posted \cup {batch[1].url}

LedgerAfterPost(batch, posted) == posted \cup BatchUrls(batch)

\* No function is being tried on its own.
FunctionsIdle ==
  /\ fn = "none"
  /\ fn_done = FALSE
  /\ arg = << >>
  /\ ret = << >>

Threads == 1..MaxThreads

\* search_queries[current_query_index % len(search_queries)] (line 686)
search_query_at(index) == index % NumQueries

\* The query picked in the iteration before the one that index stands for.
last_search_query(index) == IF index = 0 THEN -1 ELSE search_query_at(index - 1)

\* Variant: the cursor stays where it is.
query_index_kept == current_query_index

\* current_query_index += 1 (line 687)
query_index_after_pick == current_query_index + 1

\* The controlling layer after one Start: the worker whose loop pc follows is
\* thread 1.
OneWorkerStarted ==
  /\ bot_running = TRUE
  /\ bot_thread = 1
  /\ thread_pc = [t \in Threads |-> IF t = 1 THEN "loop" ELSE "unborn"]
  /\ ui_pc = "idle"

Init ==
  /\ OneWorkerStarted
  /\ pc = "while"
  /\ stop_event = FALSE
  /\ credentials = "valid"
  /\ gemini_key \in BOOLEAN
  /\ post_interval_minutes \in PostIntervals
  /\ min_post_word_count = DEFAULT_MIN_POST_WORD_COUNT
  /\ max_articles_to_combine = DEFAULT_MAX_ARTICLES_TO_COMBINE
  /\ posted_file \in InitialFiles
  /\ posted_urls = load_posted_urls(posted_file)
  /\ error_count = 0
  /\ current_query_index = 0
  /\ search_query = last_search_query(current_query_index)
  /\ sites_left = 0
  /\ ddg_url = ""
  /\ primary_article_data = None
  /\ ai_keywords_malformed = FALSE
  /\ subs_left = 0
  /\ processed_from_source = 0
  /\ all_articles_data = << >>
  /\ current_total_words = 0
  /\ related_left = 0
  /\ related_urls_in_this_batch = {}
  /\ posted_article_in_this_iteration = FALSE
  /\ wait_timeout = 0
  /\ call = "none"
  /\ fault = "none"
  /\ publish_result = "none"
  /\ errors_before_post = 0
  /\ platform_fault_in_iteration = FALSE
  /\ auth_fault_pending = FALSE
  /\ publish_count = [u \in URLs |-> 0]
  /\ FunctionsIdle


\* ------------------------------------------------------ worker loop ----
\* Locals of an iteration that no later statement reads before it reassigns
\* them are put back to their initial values when the iteration leaves them.
ClearCandidate ==
  /\ ddg_url' = ""
  /\ primary_article_data' = None
  /\ ai_keywords_malformed' = FALSE
  /\ subs_left' = 0
  /\ processed_from_source' = 0

ClearBatch ==
  /\ all_articles_data' = << >>
  /\ current_total_words' = 0
  /\ related_left' = 0
  /\ related_urls_in_this_batch' = {}

\* Variant: the handler counts an exception twice.
error_count_after_two_exceptions == error_count + 2

\* except Exception as e_loop (lines 790-800), entered from the statement that raised.
error_count_after_exception == error_count + 1

\* Variant: the threshold test is off by one.
max_errors_exceeded(n) == n > max_errors_in_row

max_errors_reached(n) == n >= max_errors_in_row

LoopException ==
  /\ error_count' = error_count_after_exception
  /\ pc' = IF max_errors_reached(error_count') THEN "finished" ELSE "backoff"
  /\ wait_timeout' = IF max_errors_reached(error_count') THEN 0 ELSE BackoffSeconds
  /\ sites_left' = 0
  /\ ClearCandidate
  /\ ClearBatch
  /\ call' = "none"
  /\ fault' = "none"
  /\ publish_result' = "none"
  /\ errors_before_post' = 0
  /\ platform_fault_in_iteration' = FALSE
  /\ UNCHANGED << fn_vars, ctl_vars, config_vars, ledger_vars, control_vars, query_vars,
                  posted_article_in_this_iteration >>

\* while not stop_event.is_set(): (line 673)
WhileTest ==
  /\ pc = "while"
  /\ pc' = IF stop_event THEN "finished" ELSE "creds"
  /\ call' = "none"
  /\ fault' = "none"
  /\ UNCHANGED << fn_vars, ctl_vars, config_vars, ledger_vars, control_vars, error_count,
                  query_vars, cand_vars, source_vars, agg_vars,
                  iter_vars, wait_timeout >>

\* Variant: only the presence of a credentials object is tested.
credentials_present == credentials # "none"

credentials_usable == credentials = "valid"

\* Lines 680-688: the credential check, then the query pick and the cursor.
CheckCredentialsUpTo(limit) ==
  /\ pc = "creds"
  /\ IF ~credentials_usable
       THEN /\ pc' = "pause"
            /\ wait_timeout' = PauseSeconds
            /\ UNCHANGED query_vars
       ELSE /\ current_query_index < limit
            /\ search_query' = search_query_at(current_query_index)
            /\ current_query_index' = query_index_after_pick
            /\ pc' = "discover"
            /\ wait_timeout' = 0
  /\ call' = "none"
  /\ fault' = "none"
  /\ UNCHANGED << fn_vars, ctl_vars, config_vars, ledger_vars, control_vars, error_count,
                  cand_vars, source_vars, agg_vars, iter_vars >>

CheckCredentials == CheckCredentialsUpTo(MaxIter)

\* if stop_event.wait(t): break  (lines 683, 788, 800): the wait returns True
\* as soon as the event is set, and the loop is left.
\* Variant: the wait's result is ignored.
next_pc_after_wait_ignoring_stop == "while"

next_pc_after_wait == IF stop_event THEN "finished" ELSE "while"

\* if stop_event.wait(60): break / continue (lines 683-684)
PauseWait ==
  /\ pc = "pause"
  /\ pc' = next_pc_after_wait
  /\ wait_timeout' = 0
  /\ call' = "none"
  /\ fault' = "none"
  /\ UNCHANGED << fn_vars, ctl_vars, config_vars, ledger_vars, control_vars, error_count,
                  query_vars, cand_vars, source_vars, agg_vars,
                  iter_vars >>

\* fetch_news_from_duckduckgo(query=search_query, num_results=3) (lines 690-691)
Discover ==
  /\ pc = "discover"
  /\ \E n \in 0..Min(NumResults, MaxResults) : sites_left' = n
  /\ pc' = "cand"
  /\ call' = "discover"
  /\ fault' = IF sites_left' = 0 THEN "discovery" ELSE "none"
  /\ posted_article_in_this_iteration' = FALSE
  /\ ClearCandidate
  /\ ClearBatch
  /\ UNCHANGED << fn_vars, ctl_vars, config_vars, ledger_vars, control_vars, error_count,
                  query_vars, publish_result, errors_before_post,
                  platform_fault_in_iteration, wait_timeout >>

\* for site_info in potential_sites_from_ddg: ... direct scrape (lines 693-709)
CandidateStep ==
  /\ pc = "cand"
  /\ IF sites_left = 0 \/ stop_event \/ posted_article_in_this_iteration
       THEN /\ pc' = "after"
            /\ call' = "none"
            /\ ClearCandidate
            /\ UNCHANGED sites_left
       ELSE /\ sites_left' = sites_left - 1
            /\ \E u \in URLs :
                 /\ ddg_url' = u
                 /\ IF u \notin posted_urls
                      THEN /\ \E page \in PageOutcomes :
                                primary_article_data' = scrape_article_content(u, page)
                           /\ call' = "extract"
                      ELSE /\ primary_article_data' = None
                           /\ call' = "none"
            /\ pc' = "fallback"
            /\ ai_keywords_malformed' = FALSE
            /\ UNCHANGED source_vars
  /\ fault' = IF call' = "extract" /\ primary_article_data' = None
                THEN "extraction" ELSE "none"
  /\ ClearBatch
  /\ publish_result' = "none"
  /\ errors_before_post' = 0
  /\ UNCHANGED << fn_vars, ctl_vars, config_vars, ledger_vars, control_vars, error_count,
                  query_vars, posted_article_in_this_iteration,
                  platform_fault_in_iteration, wait_timeout >>

is_likely_homepage(u) == u \in HomepageUrls

treat_as_source_page(u) == is_likely_homepage(u) \/ u \notin posted_urls

\* Lines 711-721: the homepage test and newspaper.build (its exceptions end in
\* except e_build).
FallbackStep ==
  /\ pc = "fallback"
  /\ IF primary_article_data = None /\ treat_as_source_page(ddg_url)
       THEN /\ \/ /\ \E n \in 0..MaxLinks : subs_left' = n
                  /\ pc' = "sub"
                  /\ fault' = "none"
               \/ /\ subs_left' = 0
                  /\ pc' = "gate"
                  /\ fault' = "build"
            /\ call' = "build"
       ELSE /\ subs_left' = 0
            /\ pc' = "gate"
            /\ call' = "none"
            /\ fault' = "none"
  /\ processed_from_source' = 0
  /\ ddg_url' = ""
  /\ UNCHANGED << fn_vars, ctl_vars, config_vars, ledger_vars, control_vars, error_count,
                  query_vars, sites_left, primary_article_data,
                  ai_keywords_malformed, agg_vars, iter_vars, wait_timeout >>

\* Variant: the fallback allows one attempt more.
fallback_budget_exceeded == processed_from_source > MaxSubArticles

\* processed_from_source >= 2 (line 725)
fallback_budget_spent == processed_from_source >= MaxSubArticles

\* for sub_article_obj in source.articles: (lines 724-736)
SubArticleStep ==
  /\ pc = "sub"
  /\ IF subs_left = 0 \/ stop_event \/ fallback_budget_spent
          \/ posted_article_in_this_iteration
       THEN /\ pc' = "gate"
            /\ subs_left' = 0
            /\ processed_from_source' = 0
            /\ call' = "none"
            /\ UNCHANGED primary_article_data
       ELSE \E sub_url \in URLs :
              IF sub_url \in posted_urls
                THEN /\ subs_left' = subs_left - 1
                     /\ pc' = "sub"
                     /\ call' = "none"
                     /\ UNCHANGED << primary_article_data, processed_from_source >>
                ELSE \E page \in PageOutcomes :
                       LET scraped_sub == scrape_article_content(sub_url, page) IN
                       /\ call' = "extract"
                       /\ IF scraped_sub # None
                            THEN /\ primary_article_data' = scraped_sub
                                 /\ subs_left' = 0
                                 /\ processed_from_source' = 0
                                 /\ pc' = "gate"
                            ELSE /\ UNCHANGED primary_article_data
                                 /\ subs_left' = subs_left - 1
                                 /\ processed_from_source' = processed_from_source + 1
                                 /\ pc' = "sub"
  /\ fault' = IF call' = "extract" /\ pc' = "sub" THEN "extraction" ELSE "none"
  /\ UNCHANGED << fn_vars, ctl_vars, config_vars, ledger_vars, control_vars, error_count,
                  query_vars, sites_left, ddg_url, ai_keywords_malformed,
                  agg_vars, iter_vars, wait_timeout >>

\* Lines 739-743.
PrimaryGate ==
  /\ pc = "gate"
  /\ IF ~stop_event /\ primary_article_data # None
        /\ primary_article_data.url \notin posted_urls
       THEN /\ pc' = "enhance"
            /\ UNCHANGED primary_article_data
       ELSE /\ pc' = IF stop_event THEN "after" ELSE "cand"
            /\ primary_article_data' = None
  /\ call' = "none"
  /\ fault' = "none"
  /\ UNCHANGED << fn_vars, ctl_vars, config_vars, ledger_vars, control_vars, error_count,
                  query_vars, sites_left, ddg_url, ai_keywords_malformed,
                  source_vars, agg_vars, iter_vars, wait_timeout >>

\* enhance_article_with_ai: reply_words = -1 stands for a failed call or a reply
\* that does not parse; otherwise the copy gets the new body's word count.
\* Variant: a failed enhancement hands back no record.
enhance_article_with_ai_none_on_failure(article_data, reply_words) ==
  IF reply_words = -1
    THEN None
    ELSE [article_data EXCEPT !.word_count = reply_words]

enhance_article_with_ai(article_data, reply_words) ==
  IF reply_words = -1
    THEN article_data
    ELSE [article_data EXCEPT !.word_count = reply_words]

ReplyOutcomes == {-1} \cup WordCounts

\* Lines 747-750.
EnhanceStep ==
  /\ pc = "enhance"
  /\ IF gemini_key
       THEN /\ \E reply_words \in ReplyOutcomes :
                 /\ primary_article_data' =
                      enhance_article_with_ai(primary_article_data, reply_words)
                 /\ ai_keywords_malformed' \in
                      (IF reply_words = -1 THEN {FALSE} ELSE BOOLEAN)
                 /\ fault' = IF reply_words = -1 THEN "enhancement" ELSE "none"
            /\ call' = "enhance"
       ELSE /\ UNCHANGED << primary_article_data, ai_keywords_malformed >>
            /\ call' = "none"
            /\ fault' = "none"
  /\ pc' = "agg"
  /\ UNCHANGED << fn_vars, ctl_vars, config_vars, ledger_vars, control_vars, error_count,
                  query_vars, sites_left, ddg_url, source_vars, agg_vars,
                  iter_vars, wait_timeout >>

\* get_sufficient_article_content, lines 287-310: the early return, the query
\* terms (kw.strip() raises on a non-string keyword) and the related search.
\* initial_article_data.get raises when it is handed no record (line 289).
num_to_fetch_candidates == Min((max_articles_to_combine - 1) * 2, MaxRelatedCandidates)

\* Variant: the early return needs more than the target.
initial_exceeds_word_count ==
  primary_article_data.word_count > min_post_word_count

\* if current_total_words >= min_post_word_count: return (line 291)
initial_meets_word_count ==
  primary_article_data.word_count >= min_post_word_count

AggregateStart ==
  /\ pc = "agg"
  /\ IF \/ primary_article_data = None
        \/ /\ primary_article_data.word_count < min_post_word_count
           /\ ai_keywords_malformed
       THEN LoopException
       ELSE /\ all_articles_data' = << primary_article_data >>
            /\ current_total_words' = primary_article_data.word_count
            /\ IF initial_meets_word_count
                    \/ max_articles_to_combine - 1 <= 0
                 THEN /\ related_left' = 0
                      /\ related_urls_in_this_batch' = {}
                      /\ pc' = "decide"
                      /\ call' = "none"
                      /\ fault' = "none"
                 ELSE /\ \E n \in 0..Min(num_to_fetch_candidates, MaxResults) :
                           related_left' = n
                      /\ related_urls_in_this_batch' = {primary_article_data.url}
                      /\ pc' = "related"
                      /\ call' = "discover"
                      /\ fault' = IF related_left' = 0 THEN "discovery" ELSE "none"
            /\ UNCHANGED << fn_vars, ctl_vars, config_vars, ledger_vars, control_vars, error_count,
                            query_vars, cand_vars, source_vars,
                            iter_vars, wait_timeout >>

\* Variant: only the primary's URL is skipped.
related_is_skipped_primary_only(related_url) ==
  related_url = all_articles_data[1].url

\* Variant: the URLs tried in this batch are not consulted.
related_is_skipped_ledger_only(related_url) ==
  related_url \in posted_urls

\* Variant: the ledger is not consulted for related articles.
related_is_skipped_batch_only(related_url) ==
  related_url \in related_urls_in_this_batch

related_is_skipped(related_url) ==
  related_url \in posted_urls \/ related_url \in related_urls_in_this_batch

\* Variant: whatever the extractor returns is taken.
related_is_accepted_any_length(related_article_data) ==
  related_article_data # None

related_is_accepted(related_article_data) ==
  related_article_data # None /\ related_article_data.word_count >= MinRelatedWords

\* Variant: the batch may grow one past max_articles_to_combine.
exceeded_max_articles == Len(all_articles_data) > max_articles_to_combine

\* Lines 314 and 315.
reached_max_articles == Len(all_articles_data) >= max_articles_to_combine

\* Variant: the loop never stops for the word count.
reached_target_words_never == FALSE

\* Line 315.
reached_target_words == current_total_words >= min_post_word_count

\* Variant: the running total is replaced by the last article's count.
total_words_of_last(related_article_data) == related_article_data.word_count

\* current_total_words += related_article_data.get('word_count', 0) (line 333)
total_words_after(related_article_data) ==
  current_total_words + related_article_data.word_count

\* for site_info_related in additional_potential_sites: (lines 312-337)
RelatedStep ==
  /\ pc = "related"
  /\ IF \/ related_left = 0
        \/ stop_event
        \/ reached_max_articles
        \/ reached_target_words
       THEN /\ pc' = "decide"
            /\ related_left' = 0
            /\ related_urls_in_this_batch' = {}
            /\ call' = "none"
            /\ fault' = "none"
            /\ UNCHANGED << all_articles_data, current_total_words >>
       ELSE \E related_url \in URLs :
              /\ related_left' = related_left - 1
              /\ pc' = "related"
              /\ IF related_is_skipped(related_url)
                   THEN /\ call' = "none"
                        /\ fault' = "none"
                        /\ UNCHANGED << all_articles_data, current_total_words,
                                        related_urls_in_this_batch >>
                   ELSE \E page \in PageOutcomes :
                          LET related_article_data ==
                                scrape_article_content(related_url, page) IN
                          /\ related_urls_in_this_batch' =
                               related_urls_in_this_batch \cup {related_url}
                          /\ call' = "extract"
                          /\ IF related_is_accepted(related_article_data)
                               THEN /\ all_articles_data' =
                                         Append(all_articles_data, related_article_data)
                                    /\ current_total_words' =
                                         total_words_after(related_article_data)
                                    /\ fault' = "none"
                               ELSE /\ UNCHANGED << all_articles_data, current_total_words >>
                                    /\ fault' = IF related_article_data = None
                                                  THEN "extraction" ELSE "insufficient"
  /\ UNCHANGED << fn_vars, ctl_vars, config_vars, ledger_vars, control_vars, error_count,
                  query_vars, cand_vars, source_vars,
                  iter_vars, wait_timeout >>

\* Lines 754-756 and 775-776.
final_words == SumWords(all_articles_data)

\* Variant: any content is enough.
content_meets_target_nonempty == final_words > 0

content_meets_target == final_words >= min_post_word_count

DecideStep ==
  /\ pc = "decide"
  /\ IF content_meets_target
       THEN /\ pc' = "video"
            /\ UNCHANGED << ddg_url, primary_article_data, ai_keywords_malformed,
                            source_vars, agg_vars >>
       ELSE /\ pc' = "cand"
            /\ ClearCandidate
            /\ ClearBatch
  /\ call' = "none"
  /\ fault' = IF content_meets_target THEN "none" ELSE "insufficient"
  /\ UNCHANGED << fn_vars, ctl_vars, config_vars, ledger_vars, control_vars, error_count,
                  query_vars, sites_left, iter_vars, wait_timeout >>

\* Lines 757-766: keywords, the video query (" ".join raises on a non-string
\* keyword), the video search and the composition.
VideoStep ==
  /\ pc = "video"
  /\ IF ai_keywords_malformed
       THEN LoopException
       ELSE /\ pc' = "publish"
            /\ call' = "video"
            /\ \E video_found \in BOOLEAN :
                 fault' = IF video_found THEN "none" ELSE "video"
            /\ UNCHANGED << fn_vars, ctl_vars, config_vars, ledger_vars, control_vars, error_count,
                            query_vars, cand_vars, source_vars, agg_vars,
                            iter_vars, wait_timeout >>

\* post_to_blogger_oauth (lines 556-605) as called on line 769.  The outcome
\* classes of the call: without a credentials object it returns at once; with an
\* expired one, or when the service cannot be built, it drops the credentials;
\* otherwise the insert succeeds, or fails with a 401-class HttpError, with
\* another HttpError (platform) or with any other exception (transport).
PublishOutcomes ==
  IF credentials = "none" THEN {"nocreds"}
  ELSE IF credentials = "invalid" THEN {"noservice"}
  ELSE {"ok", "auth", "platform", "transport", "noservice"}

\* Variant: a 401-class fault leaves the credentials in place.
credentials_kept_after_publish(outcome) == credentials

credentials_after_publish(outcome) ==
  IF outcome \in {"auth", "noservice"} THEN "none" ELSE credentials

\* Variant: an error response of the platform is taken for a post.
publish_succeeded_or_platform(outcome) == outcome \in {"ok", "platform"}

publish_succeeded(outcome) == outcome = "ok"

\* Variant: the counter is not reset by a post.
error_count_kept_after_post == error_count

error_count_after_post == 0

\* Variant: a failed post ends the candidate loop.
next_pc_after_failed_post_break == "after"

next_pc_after_failed_post == "cand"

\* Variant: a successful post does not leave the candidate loop at once.
next_pc_after_post_continue == "cand"

\* break (line 774)
next_pc_after_post == "after"

\* Lines 769-776.
PublishStep ==
  /\ pc = "publish"
  /\ \E outcome \in PublishOutcomes :
       /\ publish_result' = outcome
       /\ errors_before_post' = error_count
       /\ credentials' = credentials_after_publish(outcome)
       /\ auth_fault_pending' = (auth_fault_pending \/ outcome = "auth")
       /\ platform_fault_in_iteration' =
            (platform_fault_in_iteration \/ outcome = "platform")
       /\ IF publish_succeeded(outcome)
            THEN /\ posted_urls' = LedgerAfterPost(all_articles_data, posted_urls)
                 /\ \E write_fails \in SUBSET BatchUrls(all_articles_data) :
                      posted_file' = SavedFile(all_articles_data, posted_urls,
                                               posted_file, write_fails)
                 /\ publish_count' =
                      [u \in URLs |-> IF u \in BatchUrls(all_articles_data)
                                        THEN publish_count[u] + 1
                                        ELSE publish_count[u]]
                 /\ posted_article_in_this_iteration' = TRUE
                 /\ error_count' = error_count_after_post
                 /\ pc' = next_pc_after_post
            ELSE /\ pc' = next_pc_after_failed_post
                 /\ UNCHANGED << ledger_vars, posted_article_in_this_iteration,
                                 error_count >>
  /\ ClearCandidate
  /\ ClearBatch
  /\ call' = "publish"
  /\ fault' = "none"
  /\ UNCHANGED << fn_vars, ctl_vars, config_vars, stop_event, query_vars, sites_left,
                  wait_timeout >>

\* Variant: the full interval is waited after every iteration.
wait_after_iteration_full == post_interval_minutes * 60

\* Lines 778-787.
wait_after_iteration ==
  IF posted_article_in_this_iteration
    THEN post_interval_minutes * 60
    ELSE Min(post_interval_minutes * 60, ShortWaitSeconds)

AfterCandidates ==
  /\ pc = "after"
  /\ IF stop_event
       THEN /\ pc' = "finished"
            /\ wait_timeout' = 0
       ELSE /\ pc' = "wait"
            /\ wait_timeout' = wait_after_iteration
  /\ sites_left' = 0
  /\ ClearCandidate
  /\ ClearBatch
  /\ call' = "none"
  /\ fault' = "none"
  /\ publish_result' = "none"
  /\ errors_before_post' = 0
  /\ platform_fault_in_iteration' = FALSE
  /\ UNCHANGED << fn_vars, ctl_vars, config_vars, ledger_vars, control_vars, error_count,
                  query_vars, posted_article_in_this_iteration >>

\* if stop_event.wait(wait_duration): break (line 788)
IterationWait ==
  /\ pc = "wait"
  /\ pc' = next_pc_after_wait
  /\ wait_timeout' = 0
  /\ call' = "none"
  /\ fault' = "none"
  /\ UNCHANGED << fn_vars, ctl_vars, config_vars, ledger_vars, control_vars, error_count,
                  query_vars, cand_vars, source_vars, agg_vars,
                  iter_vars >>

\* if stop_event.wait(300): break (line 800)
BackoffWait ==
  /\ pc = "backoff"
  /\ pc' = next_pc_after_wait
  /\ wait_timeout' = 0
  /\ call' = "none"
  /\ fault' = "none"
  /\ UNCHANGED << fn_vars, ctl_vars, config_vars, ledger_vars, control_vars, error_count,
                  query_vars, cand_vars, source_vars, agg_vars,
                  iter_vars >>

\* ------------------------------------------------ controlling layer ----
worker_vars == << pc, config_vars, ledger_vars, error_count, query_vars,
                  cand_vars, source_vars, agg_vars,
                  iter_vars, wait_timeout >>

\* The Stop button sets the shared event (line 894).
StopButton ==
  /\ ~stop_event
  /\ stop_event' = TRUE
  /\ UNCHANGED << fn_vars, ctl_vars, worker_vars, call, fault, credentials, auth_fault_pending >>

\* "Authenticate with Google" (lines 871-881), offered while not authenticated.
Authenticate ==
  /\ credentials # "valid"
  /\ credentials' = "valid"
  /\ auth_fault_pending' = FALSE
  /\ UNCHANGED << fn_vars, ctl_vars, worker_vars, call, fault, stop_event >>

\* "Logout / Clear Credentials" (lines 862-868).
Logout ==
  /\ credentials = "valid"
  /\ credentials' = "none"
  /\ UNCHANGED << fn_vars, ctl_vars, worker_vars, call, fault, stop_event, auth_fault_pending >>

\* The access token expires: credentials.valid turns false (read on line 681).
TokenExpires ==
  /\ credentials = "valid"
  /\ credentials' = "invalid"
  /\ UNCHANGED << fn_vars, ctl_vars, worker_vars, call, fault, stop_event, auth_fault_pending >>

Next ==
  \/ WhileTest
  \/ CheckCredentials
  \/ PauseWait
  \/ Discover
  \/ CandidateStep
  \/ FallbackStep
  \/ SubArticleStep
  \/ PrimaryGate
  \/ EnhanceStep
  \/ AggregateStart
  \/ RelatedStep
  \/ DecideStep
  \/ VideoStep
  \/ PublishStep
  \/ AfterCandidates
  \/ IterationWait
  \/ BackoffWait
  \/ StopButton
  \/ Authenticate
  \/ Logout
  \/ TokenExpires

Spec == Init /\ [][Next]_vars

\* ------------------------------------------- the aggregation alone ----
\* get_sufficient_article_content for every primary article, ledger, target
\* and max_articles_to_combine the worker can call it with; it ends at the
\* return (pc = "decide").
LedgerFiles ==
  {<< >>} \cup {<<u>> : u \in URLs}
          \cup {f \in {<<u, v>> : u \in URLs, v \in URLs} : f[1] # f[2]}

AggInit ==
  /\ OneWorkerStarted
  /\ pc = "agg"
  /\ stop_event = FALSE
  /\ credentials = "valid"
  /\ gemini_key = FALSE
  /\ post_interval_minutes \in PostIntervals
  /\ min_post_word_count \in MinWordChoices
  /\ max_articles_to_combine \in 1..MaxArticles
  /\ posted_file \in LedgerFiles
  /\ posted_urls = load_posted_urls(posted_file)
  /\ error_count = 0
  /\ current_query_index = 1
  /\ search_query = last_search_query(current_query_index)
  /\ sites_left = 0
  /\ ddg_url = ""
  /\ \E u \in URLs \ posted_urls, w \in WordCounts :
       primary_article_data = Article(u, w)
  /\ ai_keywords_malformed = FALSE
  /\ subs_left = 0
  /\ processed_from_source = 0
  /\ all_articles_data = << >>
  /\ current_total_words = 0
  /\ related_left = 0
  /\ related_urls_in_this_batch = {}
  /\ posted_article_in_this_iteration = FALSE
  /\ wait_timeout = 0
  /\ call = "none"
  /\ fault = "none"
  /\ publish_result = "none"
  /\ errors_before_post = 0
  /\ platform_fault_in_iteration = FALSE
  /\ auth_fault_pending = FALSE
  /\ publish_count = [u \in URLs |-> 0]
  /\ FunctionsIdle

AggNext ==
  \/ AggregateStart
  \/ RelatedStep
  \/ StopButton

AggSpec == AggInit /\ [][AggNext]_vars

\* ------------------------------------- starting and stopping workers ----
\* The Start and Stop buttons with the threads they start, each thread reduced
\* to where it stands with respect to the stop event: "loop" (about to test the
\* event: lines 673, 694, 725, 739, 778, 313), "call" (inside a remote call:
\* search, download, rewrite, video search, publish), "wait" (inside
\* stop_event.wait) or "finished".  The detailed loop variables stay as they
\* are at the start.
CtlInit ==
  /\ bot_running = FALSE
  /\ bot_thread = 0
  /\ thread_pc = [t \in Threads |-> "unborn"]
  /\ ui_pc = "idle"
  /\ pc = "while"
  /\ stop_event = FALSE
  /\ credentials = "valid"
  /\ gemini_key = TRUE
  /\ post_interval_minutes \in PostIntervals
  /\ min_post_word_count = DEFAULT_MIN_POST_WORD_COUNT
  /\ max_articles_to_combine = DEFAULT_MAX_ARTICLES_TO_COMBINE
  /\ posted_file = << >>
  /\ posted_urls = load_posted_urls(posted_file)
  /\ error_count = 0
  /\ current_query_index = 0
  /\ search_query = last_search_query(current_query_index)
  /\ sites_left = 0
  /\ ddg_url = ""
  /\ primary_article_data = None
  /\ ai_keywords_malformed = FALSE
  /\ subs_left = 0
  /\ processed_from_source = 0
  /\ all_articles_data = << >>
  /\ current_total_words = 0
  /\ related_left = 0
  /\ related_urls_in_this_batch = {}
  /\ posted_article_in_this_iteration = FALSE
  /\ wait_timeout = 0
  /\ call = "none"
  /\ fault = "none"
  /\ publish_result = "none"
  /\ errors_before_post = 0
  /\ platform_fault_in_iteration = FALSE
  /\ auth_fault_pending = FALSE
  /\ publish_count = [u \in URLs |-> 0]
  /\ FunctionsIdle

is_alive(t) == thread_pc[t] \in {"loop", "call", "wait"}

\* "Start Bot" (lines 905-931), offered while bot_running is false.
StartBot ==
  /\ ui_pc = "idle"
  /\ ~bot_running
  /\ credentials = "valid"
  /\ \E t \in Threads :
       /\ thread_pc[t] = "unborn"
       /\ \A u \in Threads : u < t => thread_pc[u] # "unborn"
       /\ thread_pc' = [thread_pc EXCEPT ![t] = "loop"]
       /\ bot_thread' = t
  /\ stop_event' = FALSE
  /\ bot_running' = TRUE
  /\ UNCHANGED << ui_pc, fn_vars, worker_vars, call, fault, credentials, auth_fault_pending >>

\* "Stop Bot" (lines 892-896): the event is set, then the thread is joined.
StopBot ==
  /\ ui_pc = "idle"
  /\ bot_running
  /\ stop_event' = TRUE
  /\ IF bot_thread # 0 /\ is_alive(bot_thread)
       THEN /\ ui_pc' = "joining"
            /\ UNCHANGED << bot_running, bot_thread >>
       ELSE /\ bot_running' = FALSE
            /\ bot_thread' = 0
            /\ UNCHANGED ui_pc
  /\ UNCHANGED << thread_pc, fn_vars, worker_vars, call, fault, credentials,
                  auth_fault_pending >>

\* join(timeout=10) returns because the thread ended (lines 896-903).
JoinReturns ==
  /\ ui_pc = "joining"
  /\ ~is_alive(bot_thread)
  /\ ui_pc' = "idle"
  /\ bot_running' = FALSE
  /\ bot_thread' = 0
  /\ UNCHANGED << thread_pc, stop_event, fn_vars, worker_vars, call, fault, credentials,
                  auth_fault_pending >>

\* join(timeout=10) returns after 10 s with the thread still inside a remote
\* call (the calls' timeouts are 10 to 30 s, the rewrite call has none); the
\* handler goes on all the same (lines 897-903).
JoinTimesOut ==
  /\ ui_pc = "joining"
  /\ thread_pc[bot_thread] = "call"
  /\ ui_pc' = "idle"
  /\ bot_running' = FALSE
  /\ bot_thread' = 0
  /\ UNCHANGED << thread_pc, stop_event, fn_vars, worker_vars, call, fault, credentials,
                  auth_fault_pending >>

\* Lines 937-940: a thread that ended by itself is noticed on a rerun.
DetectDeadThread ==
  /\ ui_pc = "idle"
  /\ bot_running
  /\ bot_thread # 0
  /\ ~is_alive(bot_thread)
  /\ bot_running' = FALSE
  /\ UNCHANGED << bot_thread, thread_pc, ui_pc, stop_event, fn_vars, worker_vars, call,
                  fault, credentials, auth_fault_pending >>

\* A thread tests the stop event and, when it is not set, goes into its next
\* remote call or wait.
ThreadTestsStop ==
  \E t \in Threads :
    /\ thread_pc[t] = "loop"
    /\ \E next \in (IF stop_event THEN {"finished"} ELSE {"call", "wait"}) :
         thread_pc' = [thread_pc EXCEPT ![t] = next]
    /\ UNCHANGED << bot_running, bot_thread, ui_pc, stop_event, fn_vars, worker_vars,
                    call, fault, credentials, auth_fault_pending >>

\* A remote call returns; the thread is on its way to the next test of the event.
ThreadCallReturns ==
  \E t \in Threads :
    /\ thread_pc[t] = "call"
    /\ thread_pc' = [thread_pc EXCEPT ![t] = "loop"]
    /\ UNCHANGED << bot_running, bot_thread, ui_pc, stop_event, fn_vars, worker_vars,
                    call, fault, credentials, auth_fault_pending >>

\* stop_event.wait returns: at once with True when the event is set, else
\* after its timeout.
ThreadWaitReturns ==
  \E t \in Threads :
    /\ thread_pc[t] = "wait"
    /\ thread_pc' = [thread_pc EXCEPT ![t] =
                       IF stop_event THEN "finished" ELSE "loop"]
    /\ UNCHANGED << bot_running, bot_thread, ui_pc, stop_event, fn_vars, worker_vars,
                    call, fault, credentials, auth_fault_pending >>

\* The seventh loop error ends a thread (lines 797-798).
ThreadGivesUp ==
  \E t \in Threads :
    /\ thread_pc[t] = "loop"
    /\ thread_pc' = [thread_pc EXCEPT ![t] = "finished"]
    /\ UNCHANGED << bot_running, bot_thread, ui_pc, stop_event, fn_vars, worker_vars,
                    call, fault, credentials, auth_fault_pending >>

CtlNext ==
  \/ StartBot
  \/ StopBot
  \/ JoinReturns
  \/ JoinTimesOut
  \/ DetectDeadThread
  \/ ThreadTestsStop
  \/ ThreadCallReturns
  \/ ThreadWaitReturns
  \/ ThreadGivesUp
  \/ Authenticate
  \/ Logout
  \/ TokenExpires

CtlSpec == CtlInit /\ [][CtlNext]_vars

\* The steps of the worker thread.
WorkerNext ==
  \/ WhileTest
  \/ CheckCredentials
  \/ PauseWait
  \/ Discover
  \/ CandidateStep
  \/ FallbackStep
  \/ SubArticleStep
  \/ PrimaryGate
  \/ EnhanceStep
  \/ AggregateStart
  \/ RelatedStep
  \/ DecideStep
  \/ VideoStep
  \/ PublishStep
  \/ AfterCandidates
  \/ IterationWait
  \/ BackoffWait

\* The worker thread keeps being scheduled, every remote call it makes returns
\* (each has a timeout) and every wait on the stop event ends.
\* It is taken up at the top of the loop with FairIterations iterations to go,
\* after no exception or after exceptions that leave room for two more.
FairInit ==
  /\ OneWorkerStarted
  /\ pc = "while"
  /\ stop_event = FALSE
  /\ credentials = "valid"
  /\ gemini_key \in BOOLEAN
  /\ post_interval_minutes \in PostIntervals
  /\ min_post_word_count = DEFAULT_MIN_POST_WORD_COUNT
  /\ max_articles_to_combine = DEFAULT_MAX_ARTICLES_TO_COMBINE
  /\ posted_file \in InitialFiles
  /\ posted_urls = load_posted_urls(posted_file)
  /\ error_count \in {0, max_errors_in_row - 2}
  /\ current_query_index = MaxIter - FairIterations
  /\ search_query = last_search_query(current_query_index)
  /\ sites_left = 0
  /\ ddg_url = ""
  /\ primary_article_data = None
  /\ ai_keywords_malformed = FALSE
  /\ subs_left = 0
  /\ processed_from_source = 0
  /\ all_articles_data = << >>
  /\ current_total_words = 0
  /\ related_left = 0
  /\ related_urls_in_this_batch = {}
  /\ posted_article_in_this_iteration = FALSE
  /\ wait_timeout = 0
  /\ call = "none"
  /\ fault = "none"
  /\ publish_result = "none"
  /\ errors_before_post = 0
  /\ platform_fault_in_iteration = FALSE
  /\ auth_fault_pending = FALSE
  /\ publish_count = [u \in URLs |-> 0]
  /\ FunctionsIdle

FairSpec == FairInit /\ [][Next]_vars /\ WF_vars(WorkerNext)

\* ------------------------------------------------ the worker, later ----
\* The worker taken up at the top of the loop after NumQueries - 2 iterations
\* that posted nothing, with a post interval below or above 15 minutes, and
\* followed for LateIterations iterations, over the end of the query list.
LateInit ==
  /\ OneWorkerStarted
  /\ pc = "while"
  /\ stop_event = FALSE
  /\ credentials = "valid"
  /\ gemini_key = TRUE
  /\ post_interval_minutes \in LatePostIntervals
  /\ min_post_word_count = DEFAULT_MIN_POST_WORD_COUNT
  /\ max_articles_to_combine = DEFAULT_MAX_ARTICLES_TO_COMBINE
  /\ posted_file = << >>
  /\ posted_urls = load_posted_urls(posted_file)
  /\ error_count = 0
  /\ current_query_index = NumQueries - 2
  /\ search_query = last_search_query(current_query_index)
  /\ sites_left = 0
  /\ ddg_url = ""
  /\ primary_article_data = None
  /\ ai_keywords_malformed = FALSE
  /\ subs_left = 0
  /\ processed_from_source = 0
  /\ all_articles_data = << >>
  /\ current_total_words = 0
  /\ related_left = 0
  /\ related_urls_in_this_batch = {}
  /\ posted_article_in_this_iteration = FALSE
  /\ wait_timeout = 0
  /\ call = "none"
  /\ fault = "none"
  /\ publish_result = "none"
  /\ errors_before_post = 0
  /\ platform_fault_in_iteration = FALSE
  /\ auth_fault_pending = FALSE
  /\ publish_count = [u \in URLs |-> 0]
  /\ FunctionsIdle

LateLimit == NumQueries - 2 + LateIterations

LateNext ==
  \/ WhileTest
  \/ CheckCredentialsUpTo(LateLimit)
  \/ PauseWait
  \/ Discover
  \/ CandidateStep
  \/ FallbackStep
  \/ SubArticleStep
  \/ PrimaryGate
  \/ EnhanceStep
  \/ AggregateStart
  \/ RelatedStep
  \/ DecideStep
  \/ VideoStep
  \/ PublishStep
  \/ AfterCandidates
  \/ IterationWait
  \/ BackoffWait
  \/ StopButton
  \/ Authenticate
  \/ Logout
  \/ TokenExpires

LateSpec == LateInit /\ [][LateNext]_vars

\* ------------------------------------------- functions on their own ----
\* The extractor, the enhancer, discovery, the label list of a post and the
\* related-article query are functions of their arguments and of what the
\* remote side answers.  FnSpec calls each of them once, on every input of a
\* bounded set, with no worker running.

\* A string: its content without the surrounding whitespace, and whether
\* whitespace surrounds it ("" with padded = TRUE is a string of whitespace).
Str(core, padded) == [core |-> core, padded |-> padded]

\* An article text: its number of word tokens (matches of \b\w+\b), and whether
\* whitespace surrounds it.
Text(words, padded) == [words |-> words, padded |-> padded]

\* str.strip() (lines 167-170, 573)
strip(s) == [s EXCEPT !.padded = FALSE]

\* "not s" of a string: true of the empty string only.
not_string(s) == s.core = "" /\ ~s.padded

\* "not text" of an article text.
not_text(text_content) == text_content.words = 0 /\ ~text_content.padded

\* count_words (lines 58-61)
count_words(text_content) ==
  IF not_text(text_content) THEN 0 ELSE text_content.words

\* What a call comes to: a value, None, or an exception that leaves it.
Returned(v) == [raised |-> FALSE, none |-> FALSE, value |-> v]
ReturnedNone == [raised |-> FALSE, none |-> TRUE, value |-> << >>]
Raised(v) == [raised |-> TRUE, none |-> FALSE, value |-> v]

\* --- scrape_article_content (lines 232-285) in detail
PageTitles == {Str("", FALSE), Str("", TRUE), Str("Title", FALSE)}
PageTexts == {Text(0, FALSE), Text(0, TRUE), Text(50, FALSE), Text(99, FALSE),
              Text(100, FALSE), Text(150, TRUE), Text(1600, FALSE)}
PageKeywords == {<< >>, <<Str("chip", FALSE)>>,
                 <<Str("chip", FALSE), Str("", TRUE), Str("phone", FALSE)>>}

\* What the download and the parse of a page come to: "download_error" and
\* "parse_error" are exceptions of article.download() and article.parse(),
\* "cancelled" is the stop event set during the wait of line 243, "nlp_error"
\* an exception of article.nlp(), "record_error" an exception while the record
\* is built (lines 272-279).
PageResults == {"ok", "download_error", "cancelled", "parse_error", "nlp_error",
                "record_error"}
Pages == [outcome : PageResults, title : PageTitles, text : PageTexts,
          keywords : PageKeywords]

\* Variant: a page without a title is accepted.
page_is_rejected_ignoring_title(title, text) ==
  not_text(text) \/ count_words(text) < MinSingleWords

\* Line 248.
page_is_rejected(title, text) ==
  not_string(title) \/ not_text(text) \/ count_words(text) < MinSingleWords

\* The record of lines 272-279.
ArticleRecord(article_url, page, keywords) ==
  [url |-> article_url, title |-> page.title, text |-> page.text,
   summary |-> Str("Summary", FALSE), authors |-> <<"author">>,
   publish_date |-> "2024-01-01", top_image_url |-> "image",
   all_images |-> {"image"},
   keywords |-> keywords, word_count |-> count_words(page.text),
   ai_keywords |-> << >>, ai_meta_description |-> Str("", FALSE)]

\* The try block (lines 234-279).
scrape_try(article_url, page) ==
  IF page.outcome \in {"download_error", "parse_error"} THEN Raised(<< >>)
  ELSE IF page.outcome = "cancelled" THEN ReturnedNone
  ELSE IF page_is_rejected(page.title, page.text) THEN ReturnedNone
  ELSE IF page.outcome = "record_error" THEN Raised(<< >>)
  ELSE Returned(ArticleRecord(article_url, page,
                  IF page.outcome = "nlp_error" THEN << >> ELSE page.keywords))

\* The function with its handlers (lines 280-285).
scrape_page(article_url, page) ==
  LET r == scrape_try(article_url, page) IN
  IF r.raised THEN ReturnedNone ELSE r

ScrapeArgs == [article_url : {"art1"}, page : Pages]

\* --- enhance_article_with_ai (lines 112-184) in detail
\* The records the enhancer is called with are records of the extractor.
ExtractedRecords ==
  {scrape_page(a.article_url, a.page).value :
     a \in {b \in ScrapeArgs : ~scrape_page(b.article_url, b.page).none
                               /\ b.page.keywords # << >>}}

ReplyTexts == {Text(0, FALSE), Text(50, TRUE), Text(800, FALSE)}
ReplyKeywords == {<< >>, <<Str("ai", FALSE), Str("gadget", TRUE)>>,
                  <<Str("Rewritten", FALSE), Str("", TRUE), Str("ai", FALSE)>>}

\* "no_key": no key is configured and no call is made; "call_failed": the call
\* raises; "not_json": json.loads raises; "not_object": the reply is JSON but
\* no object; "object": a JSON object, in which each of the four keys may be
\* missing and the text may be of another type than string.
NoReply(kind) ==
  [kind |-> kind, has_title |-> FALSE, has_text |-> FALSE,
   text_is_string |-> TRUE, enhanced_text |-> Text(0, FALSE),
   has_keywords |-> FALSE, seo_keywords |-> << >>, has_meta |-> FALSE]
Replies ==
  {NoReply(k) : k \in {"no_key", "call_failed", "not_json", "not_object"}}
  \cup [kind : {"object"}, has_title : BOOLEAN, has_text : BOOLEAN,
        text_is_string : BOOLEAN, enhanced_text : ReplyTexts,
        has_keywords : BOOLEAN, seo_keywords : ReplyKeywords,
        has_meta : BOOLEAN]

seo_title == Str("Rewritten", TRUE)
meta_description == Str("About", TRUE)

\* Variant: the word count of the record handed in is kept.
enhanced_word_count_stale(article_data, text) == article_data.word_count

\* Line 172.
enhanced_word_count(article_data, text) == count_words(text)

\* The try block (lines 155-176): the value of a raise is the copy as far as
\* it was filled in.
enhance_try(article_data, reply) ==
  IF reply.kind # "object" THEN Raised(article_data)
  ELSE LET with_title ==
             [article_data EXCEPT
                !.title = strip(IF reply.has_title THEN seo_title
                                ELSE article_data.title)]
       IN
       IF reply.has_text /\ ~reply.text_is_string THEN Raised(with_title)
       ELSE LET text == strip(IF reply.has_text THEN reply.enhanced_text
                              ELSE article_data.text)
            IN Returned([with_title EXCEPT
                 !.text = text,
                 !.ai_keywords = IF reply.has_keywords THEN reply.seo_keywords
                                 ELSE << >>,
                 !.ai_meta_description =
                    strip(IF reply.has_meta THEN meta_description
                          ELSE Str("", FALSE)),
                 !.word_count = enhanced_word_count(article_data, text)])

\* Variant: a failure returns the copy as far as it was filled in.
enhance_except_partial(article_data, enhanced_data) == enhanced_data

\* Lines 178-184: both handlers return article_data.
enhance_except(article_data, enhanced_data) == article_data

\* The function: lines 113-115, then the try block and its handlers.
enhance_record(article_data, reply) ==
  IF reply.kind = "no_key" THEN Returned(article_data)
  ELSE LET r == enhance_try(article_data, reply) IN
       IF r.raised THEN Returned(enhance_except(article_data, r.value))
       ELSE r

\* Variant: the fields are assigned on the record handed in.
input_after_enhance_in_place(article_data, enhanced_data) == enhanced_data

\* The record handed in, after the call: enhanced_data is a copy (line 166) and
\* nothing is assigned to article_data.
input_after_enhance(article_data, enhanced_data) == article_data

EnhanceArgs == [article_data : ExtractedRecords, reply : Replies]

\* --- fetch_news_from_duckduckgo (lines 187-230) in detail
\* A result of the provider: its rank on the page, whether it has a title and
\* an http URL outside duckduckgo.com (lines 201, 208), and whether a
\* technology keyword occurs in its title or URL (lines 210-211).
ProviderResults ==
  UNION {[1..n -> [usable : BOOLEAN, is_relevant : BOOLEAN]] :
           n \in 0..MaxProviderResults}

\* What the callers pass: 3 (line 690) and min(needed * 2, 5) >= 2 (line 306).
NumResultsChoices == {2, NumResults}

\* "network": requests.get or raise_for_status raises; "parse": an exception
\* while the page is parsed or its results are walked, after parse_fails_at
\* results have been handled.
DiscoverArgs ==
  [results : ProviderResults, query_is_short : BOOLEAN,
   num_results : NumResultsChoices, outcome : {"ok", "network"},
   parse_fails_at : {0}]
  \cup [results : ProviderResults \ {<< >>}, query_is_short : BOOLEAN,
        num_results : NumResultsChoices, outcome : {"parse"},
        parse_fails_at : {0, 1}]

\* Lines 201-213: query_is_short is query.lower().count(" ") < 3.
result_is_kept(result, query_is_short) ==
  result.usable /\ (query_is_short \/ result.is_relevant)

\* Variant: the loop stops one result late.
exceeded_num_results(news_items, num_results) == Len(news_items) > num_results

\* Line 215.
reached_num_results(news_items, num_results) == Len(news_items) >= num_results

\* for result in results: (lines 198-216), from the result of rank i on; an
\* exception at rank fails_at leaves the loop with what was collected.
RECURSIVE collect_news_items(_, _, _, _, _, _)
collect_news_items(results, i, news_items, query_is_short, num_results, fails_at) ==
  IF i > Len(results) THEN Returned(news_items)
  ELSE IF i = fails_at THEN Raised(news_items)
  ELSE IF result_is_kept(results[i], query_is_short)
    THEN LET appended == Append(news_items, [rank |-> i]) IN
         IF reached_num_results(appended, num_results)
           THEN Returned(appended)
           ELSE collect_news_items(results, i + 1, appended, query_is_short,
                                   num_results, fails_at)
    ELSE collect_news_items(results, i + 1, news_items, query_is_short,
                            num_results, fails_at)

\* The try block (lines 192-222).
fetch_try(a) ==
  IF a.outcome = "network" THEN Raised(<< >>)
  ELSE IF a.outcome = "parse" /\ a.parse_fails_at = 0 THEN Raised(<< >>)
  ELSE collect_news_items(a.results, 1, << >>, a.query_is_short, a.num_results,
                          IF a.outcome = "parse" THEN a.parse_fails_at ELSE 0)

\* The function with its handlers (lines 224-229).
fetch_news_from_duckduckgo(a) ==
  LET r == fetch_try(a) IN
  IF r.raised THEN Returned(<< >>) ELSE r

\* --- one result of the page (lines 199-214) in detail
\* The href of a result: "none" (no href), "relative" (no http scheme, as in
\* "//duckduckgo.com/l/?uddg=..."), "direct" (an http URL of another site),
\* "provider" (an http URL of duckduckgo.com), "wrapper" (the redirect link
\* https://duckduckgo.com/l/?uddg=<target>).
HrefKinds == {"none", "relative", "direct", "provider", "wrapper"}

\* A result: whether it has a title, its href, and whether a technology
\* keyword occurs in its title and in the URL it stands for.
TaggedResults ==
  [has_title : BOOLEAN, href : HrefKinds, title_is_relevant : BOOLEAN,
   url_is_relevant : BOOLEAN]

\* A query of terms separated by single spaces.
Queries == [terms : 1..MaxQueryTerms]

\* query.lower().count(" ") (line 213)
count_spaces(query) == query.terms - 1

\* query.lower().count(" ") < 3 (line 213)
query_is_short(query) == count_spaces(query) < 3

\* url.startswith("http")
starts_with_http(href) == href \in {"direct", "provider", "wrapper", "target"}

\* "duckduckgo.com" in url
names_provider(href) == href \in {"relative", "provider", "wrapper"}

\* Line 201.
href_passes(href) ==
  href # "none" /\ starts_with_http(href) /\ ~names_provider(href)

\* Lines 202-206: the uddg parameter of a redirect link.
resolved_url(href) == IF href = "wrapper" THEN "target" ELSE href

\* Lines 199-214 for one result: the hit appended for it, if any.
hit_of_result(result, query) ==
  IF href_passes(result.href)
    THEN LET url == resolved_url(result.href) IN
         IF /\ result.has_title
            /\ starts_with_http(url)
            /\ result_is_kept([usable |-> TRUE,
                               is_relevant |-> result.title_is_relevant
                                               \/ result.url_is_relevant],
                              query_is_short(query))
           THEN Returned([url |-> url])
           ELSE ReturnedNone
    ELSE ReturnedNone

HitArgs == [result : TaggedResults, query : Queries]

\* --- the label list of post_to_blogger_oauth (lines 571-575)
LabelCap == 20

BaselineLabels ==
  << Str("Tech News", FALSE), Str("AI Update", FALSE),
     Str("Gadget Review", FALSE), Str("Automated Post", FALSE) >>

\* Labels as the caller builds them (line 760 and the lines before it).
SomeLabels == {Str("", TRUE), Str("Tech News", TRUE), Str("Ai", FALSE),
               Str("Ai", TRUE), Str("ai", FALSE)}
ShortLabelLists == UNION {[1..n -> SomeLabels] : n \in 0..3}
ManyLabels(n) == [i \in 1..n |-> Str(ToString(i), i % 2 = 0)]
LongLabelLists ==
  {ManyLabels(n) : n \in (LabelCap - 5)..MaxLabels}
  \cup {<<Str("2", FALSE), Str("", TRUE)>> \o ManyLabels(n) :
          n \in (LabelCap - 5)..MaxLabels}
LabelArgs == [labels_list : ShortLabelLists \cup LongLabelLists]

\* Variant: a label the list already holds is added again.
label_is_added_again(cleaned_lbl, final) ==
  ~not_string(cleaned_lbl) /\ Len(final) < LabelCap

\* Line 574.
label_is_added(cleaned_lbl, final) ==
  /\ ~not_string(cleaned_lbl)
  /\ cleaned_lbl \notin SeqToSet(final)
  /\ Len(final) < LabelCap

\* for lbl in labels_list: (lines 572-575)
RECURSIVE final_labels(_, _)
final_labels(labels_list, final) ==
  IF labels_list = << >> THEN final
  ELSE LET cleaned_lbl == strip(Head(labels_list)) IN
       final_labels(Tail(labels_list),
                    IF label_is_added(cleaned_lbl, final)
                      THEN Append(final, cleaned_lbl)
                      ELSE final)

\* --- related_search_query of get_sufficient_article_content (lines 297-301)
\* dict.get(key, default)
dict_get(d, key, default) == IF key \in DOMAIN d THEN d[key] ELSE default

\* Line 298.
effective_keywords(initial_article_data) ==
  dict_get(initial_article_data, "ai_keywords",
           dict_get(initial_article_data, "keywords", << >>))

\* s[:n]
first_n(s, n) == SubSeq(s, 1, Min(n, Len(s)))

\* [kw for kw in kws if kw.strip()] (line 299)
RECURSIVE nonblank(_)
nonblank(kws) ==
  IF kws = << >> THEN << >>
  ELSE IF not_string(strip(Head(kws))) THEN nonblank(Tail(kws))
  ELSE <<Head(kws)>> \o nonblank(Tail(kws))

\* dict.fromkeys(search_terms): the first occurrence of each term, in order.
RECURSIVE first_seen(_, _)
first_seen(terms, seen) ==
  IF terms = << >> THEN << >>
  ELSE IF Head(terms) \in seen THEN first_seen(Tail(terms), seen)
  ELSE <<Head(terms)>> \o first_seen(Tail(terms), seen \cup {Head(terms)})

QuerySuffix == Str("latest technology", FALSE)

\* Lines 297-301 for given keywords: the terms of the query in order (the
\* query is their join with spaces).
query_terms(keywords, title) ==
  first_seen(nonblank(first_n(keywords, 2)) \o <<title>>, {}) \o <<QuerySuffix>>

related_search_query(initial_article_data) ==
  query_terms(effective_keywords(initial_article_data),
              initial_article_data.title)

\* The primary article is a record of the extractor, enhanced or not.
QueryArgs ==
  [initial_article_data :
     ExtractedRecords
     \cup {enhance_record(a.article_data, a.reply).value : a \in EnhanceArgs}]

\* --- the calls
program_vars == << ctl_vars, worker_vars, call, fault, stop_event, credentials,
                   auth_fault_pending >>

FnCalls == {"scrape", "enhance", "discover", "labels", "query", "hit"}

ArgsOf(f) ==
  IF f = "scrape" THEN ScrapeArgs
  ELSE IF f = "enhance" THEN EnhanceArgs
  ELSE IF f = "discover" THEN DiscoverArgs
  ELSE IF f = "labels" THEN LabelArgs
  ELSE IF f = "hit" THEN HitArgs
  ELSE QueryArgs

FnInit ==
  /\ fn \in FnCalls
  /\ arg \in ArgsOf(fn)
  /\ fn_done = FALSE
  /\ ret = << >>
  /\ bot_running = FALSE
  /\ bot_thread = 0
  /\ thread_pc = [t \in Threads |-> "unborn"]
  /\ ui_pc = "idle"
  /\ pc = "while"
  /\ stop_event = FALSE
  /\ credentials = "valid"
  /\ gemini_key = TRUE
  /\ post_interval_minutes \in PostIntervals
  /\ min_post_word_count = DEFAULT_MIN_POST_WORD_COUNT
  /\ max_articles_to_combine = DEFAULT_MAX_ARTICLES_TO_COMBINE
  /\ posted_file = << >>
  /\ posted_urls = load_posted_urls(posted_file)
  /\ error_count = 0
  /\ current_query_index = 0
  /\ search_query = last_search_query(current_query_index)
  /\ sites_left = 0
  /\ ddg_url = ""
  /\ primary_article_data = None
  /\ ai_keywords_malformed = FALSE
  /\ subs_left = 0
  /\ processed_from_source = 0
  /\ all_articles_data = << >>
  /\ current_total_words = 0
  /\ related_left = 0
  /\ related_urls_in_this_batch = {}
  /\ posted_article_in_this_iteration = FALSE
  /\ wait_timeout = 0
  /\ call = "none"
  /\ fault = "none"
  /\ publish_result = "none"
  /\ errors_before_post = 0
  /\ platform_fault_in_iteration = FALSE
  /\ auth_fault_pending = FALSE
  /\ publish_count = [u \in URLs |-> 0]

CallScrape ==
  /\ fn = "scrape"
  /\ ~fn_done
  /\ ret' = scrape_page(arg.article_url, arg.page)
  /\ fn_done' = TRUE
  /\ UNCHANGED << fn, arg, program_vars >>

CallEnhance ==
  /\ fn = "enhance"
  /\ ~fn_done
  /\ LET r == enhance_record(arg.article_data, arg.reply) IN
       /\ ret' = r
       /\ arg' = [arg EXCEPT
                    !.article_data = input_after_enhance(arg.article_data, r.value)]
  /\ fn_done' = TRUE
  /\ UNCHANGED << fn, program_vars >>

CallDiscover ==
  /\ fn = "discover"
  /\ ~fn_done
  /\ ret' = fetch_news_from_duckduckgo(arg)
  /\ fn_done' = TRUE
  /\ UNCHANGED << fn, arg, program_vars >>

CallLabels ==
  /\ fn = "labels"
  /\ ~fn_done
  /\ ret' = Returned(final_labels(arg.labels_list, BaselineLabels))
  /\ fn_done' = TRUE
  /\ UNCHANGED << fn, arg, program_vars >>

CallQuery ==
  /\ fn = "query"
  /\ ~fn_done
  /\ ret' = Returned(related_search_query(arg.initial_article_data))
  /\ fn_done' = TRUE
  /\ UNCHANGED << fn, arg, program_vars >>

CallHit ==
  /\ fn = "hit"
  /\ ~fn_done
  /\ ret' = hit_of_result(arg.result, arg.query)
  /\ fn_done' = TRUE
  /\ UNCHANGED << fn, arg, program_vars >>

FnNext ==
  \/ CallScrape
  \/ CallEnhance
  \/ CallDiscover
  \/ CallLabels
  \/ CallQuery
  \/ CallHit

FnSpec == FnInit /\ [][FnNext]_vars

\* ----------------------------------------------------------- claims ----
\* A step of the worker (the controlling layer's steps leave worker_vars alone).
WorkerStep == worker_vars' # worker_vars

PublishReturns(outcome) == pc = "publish" /\ publish_result' = outcome

PublishedUrls == {u \in URLs : publish_count[u] > 0}

\* C1: no member of a batch handed to the Publisher is in the ledger, the
\* members' URLs are pairwise different, and no URL has been in two
\* successfully published batches.
C1_NoLedgerUrlInPublishedBatch ==
  /\ pc = "publish" =>
       /\ BatchUrls(all_articles_data) \cap posted_urls = {}
       /\ Cardinality(BatchUrls(all_articles_data)) = Len(all_articles_data)
  /\ \A u \in URLs : publish_count[u] <= 1

\* A second batch, with a supporting article, is about to be published while
\* the ledger holds what an earlier post of the run added.
C1_Witness ==
  /\ pc = "publish"
  /\ Len(all_articles_data) = 2
  /\ PublishedUrls # {}
  /\ PublishedUrls \subseteq posted_urls

\* C2: the ledger (in memory and on file) changes only in the step in which a
\* publish call returns success, and only by URLs of the published batch; the
\* file is only appended to.
C2_LedgerChangesOnlyOnSuccess ==
  [][ (posted_urls' # posted_urls \/ posted_file' # posted_file) =>
        /\ PublishReturns("ok")
        /\ posted_urls \subseteq posted_urls'
        /\ (posted_urls' \ posted_urls) \subseteq BatchUrls(all_articles_data)
        /\ Len(posted_file') >= Len(posted_file)
        /\ SubSeq(posted_file', 1, Len(posted_file)) = posted_file
        /\ (SeqToSet(posted_file') \ SeqToSet(posted_file))
             \subseteq BatchUrls(all_articles_data) ]_vars

C2_Witness ==
  /\ publish_result = "ok"
  /\ \E u \in URLs : /\ publish_count[u] = 1
                     /\ u \in posted_urls
                     /\ u \in SeqToSet(posted_file)

\* C3: the step in which a publish call returns success puts every member's
\* URL into the ledger, marks the iteration as posted and leaves the candidate
\* loop.
C3_WholeBatchRecorded ==
  [][ PublishReturns("ok") =>
        /\ BatchUrls(all_articles_data) \subseteq posted_urls'
        /\ posted_article_in_this_iteration'
        /\ pc' = "after" ]_vars

\* The first iteration published a batch of a primary and a supporting article.
C3_Witness ==
  /\ publish_result = "ok"
  /\ current_query_index = 1
  /\ posted_article_in_this_iteration
  /\ Cardinality(PublishedUrls) >= 2
  /\ PublishedUrls \subseteq posted_urls

\* C4: right after a successful publish the consecutive-error counter is 0.
C4_CounterZeroAfterPost == publish_result = "ok" => error_count = 0

C4_Witness ==
  /\ publish_result = "ok"
  /\ errors_before_post > 0
  /\ error_count = 0

\* C5: the counter stays in 0..7, the worker is finished whenever it is 7, and
\* a finished worker takes no further step.
C5_CounterBoundedAndFatal ==
  /\ [](/\ error_count \in 0..max_errors_in_row
        /\ (error_count = max_errors_in_row => pc = "finished" /\ wait_timeout = 0))
  /\ [][ pc = "finished" => UNCHANGED << worker_vars, call >> ]_vars

C5_Witness == error_count = max_errors_in_row /\ pc = "finished" /\ ~stop_event

\* C6 (as stated): an iteration that reaches its inter-iteration wait, that is
\* one that ended without an uncaught exception, leaves the counter at 0.
C6_CounterZeroAfterCleanIteration == pc = "wait" => error_count = 0

\* C7: with absent or invalid credentials the credential check leads to the
\* 60 s pause without a remote call and without touching the error counter or
\* the query cursor; so does the pause itself, which ends in the re-check or,
\* when cancelled, in the end of the loop.
C7_PauseForAuth ==
  [][ /\ (pc = "creds" /\ credentials # "valid" /\ WorkerStep) =>
           /\ pc' = "pause"
           /\ wait_timeout' = PauseSeconds
           /\ call' = "none"
           /\ UNCHANGED << error_count, current_query_index, ledger_vars >>
      /\ (pc = "pause" /\ WorkerStep) =>
           /\ pc' = (IF stop_event THEN "finished" ELSE "while")
           /\ call' = "none"
           /\ UNCHANGED << error_count, current_query_index, ledger_vars >> ]_vars

\* The worker pauses in the middle of a run, with both counters above 0.
C7_Witness ==
  /\ pc = "pause"
  /\ wait_timeout = PauseSeconds
  /\ credentials = "invalid"
  /\ error_count > 0
  /\ current_query_index > 1

\* C8: a publish call that fails with a 401-class fault drops the shared
\* credentials and records nothing in the ledger.
C8_AuthFaultInvalidates ==
  [][ PublishReturns("auth") =>
        /\ credentials' = "none"
        /\ UNCHANGED << posted_urls, posted_file >> ]_vars

C8_Witness ==
  /\ publish_result = "auth"
  /\ credentials = "none"
  /\ auth_fault_pending
  /\ posted_urls = {}

\* C9 (as stated): from an authentication fault of a publish call until the
\* controlling layer re-authenticates, the worker makes no discovery,
\* extraction or publish call, and the fault does not raise the error counter.
C9_NoCallsWhileAuthFaultPending ==
  [][ /\ (auth_fault_pending /\ WorkerStep) =>
           call' \notin {"discover", "extract", "publish"}
      /\ PublishReturns("auth") => error_count' = error_count ]_vars

\* C10 (as stated): after a platform fault of a publish call no further
\* publish call is made in the iteration, and the fault does not raise the
\* error counter.
C10_NoPublishAfterPlatformFault ==
  [][ /\ (platform_fault_in_iteration /\ WorkerStep) => call' # "publish"
      /\ PublishReturns("platform") => error_count' = error_count ]_vars

\* C10 (amended): a platform fault of a publish call records nothing in the
\* ledger, leaves the error counter and the credentials alone, and hands
\* control back to the candidate loop, which goes on with the next candidate.
C10_PlatformFaultSkipsCandidate ==
  [][ PublishReturns("platform") =>
        /\ pc' = "cand"
        /\ UNCHANGED << error_count, credentials, ledger_vars, sites_left >>
        /\ ~posted_article_in_this_iteration' ]_vars

\* A platform fault with a candidate left to try.
C10_Witness ==
  /\ publish_result = "platform"
  /\ pc = "cand"
  /\ sites_left > 0
  /\ ~stop_event

\* Where the worker stands after a fault of each kind was handled in place.
PositionsAfterFault ==
  [ discovery    |-> {"cand", "related"},
    extraction   |-> {"fallback", "sub", "related"},
    build        |-> {"gate"},
    enhancement  |-> {"agg"},
    insufficient |-> {"related", "cand"},
    video        |-> {"publish"} ]

\* C11: a step that meets a transient fault (empty or failed discovery, failed
\* extraction or source build, insufficient content, failed enhancement, failed
\* video search) leaves the error counter alone and the worker in the candidate
\* pipeline; the counter rises only in a step that raises on a malformed
\* keyword list, never after a fault.
C11_TransientFaultsDoNotPropagate ==
  [][ /\ fault' # "none" =>
           /\ error_count' = error_count
           /\ pc' \in PositionsAfterFault[fault']
      /\ error_count' > error_count =>
           /\ pc \in {"agg", "video"}
           /\ ai_keywords_malformed
           /\ fault' = "none" ]_vars

\* After an earlier loop error, a candidate was given up for insufficient
\* content and the next candidate is up.
C11_Witness ==
  /\ fault = "insufficient"
  /\ pc = "cand"
  /\ sites_left > 0
  /\ error_count > 0
  /\ ~stop_event

\* The model stops exploring at an iteration that would be the MaxIter+1st.
IterationsExhausted ==
  pc = "creds" /\ credentials_usable /\ current_query_index = MaxIter

\* C12: a wait that finds the stop event set ends in the end of the loop,
\* without another iteration; and once the stop event is set the worker
\* eventually is finished, from wherever it stands.
C12_CancellationStopsWorker ==
  /\ [][ (pc \in {"pause", "wait", "backoff"} /\ stop_event /\ WorkerStep) =>
           /\ pc' = "finished"
           /\ current_query_index' = current_query_index
           /\ call' = "none" ]_vars
  /\ [][ pc = "finished" => pc' = "finished" ]_vars
  /\ (stop_event ~> (pc = "finished" \/ IterationsExhausted))

\* The stop event is set while the worker is in its error backoff.
C12_Witness ==
  /\ pc = "backoff"
  /\ wait_timeout = BackoffSeconds
  /\ stop_event

\* C13 (as stated): over every sequence of Start and Stop at most one worker
\* thread is alive, and so at most one is inside a remote call.
C13_AtMostOneWorkerAlive ==
  /\ Cardinality({t \in Threads : is_alive(t)}) <= 1
  /\ Cardinality({t \in Threads : thread_pc[t] = "call"}) <= 1

\* The aggregation is under way or has just returned its batch.
InAggregate == pc \in {"related", "decide"}

SupportingIndexes == 2..Len(all_articles_data)

\* C14: the batch of an aggregation holds no supporting article whose URL is in
\* the ledger, and no URL twice.
C14_AggregateBatchFreshAndDistinct ==
  InAggregate =>
    /\ \A i \in SupportingIndexes : all_articles_data[i].url \notin posted_urls
    /\ \A i, j \in 1..Len(all_articles_data) :
         i # j => all_articles_data[i].url # all_articles_data[j].url

\* A batch with a supporting article, built while the ledger was not empty.
C14_Witness ==
  /\ pc = "decide"
  /\ Len(all_articles_data) = 2
  /\ posted_urls # {}

\* C15: the aggregation's loop ends (every pass uses up a candidate), the
\* extractions it causes plus the candidates still to visit never exceed
\* min(2*(max_articles-1),5), the primary's extraction counted apart, and every
\* extraction is of a URL not tried before in the attempt.
C15_AggregateBounded ==
  /\ [](pc = "related" =>
          /\ related_left >= 0
          /\ Cardinality(related_urls_in_this_batch) + related_left
               <= Min(2 * (max_articles_to_combine - 1), 5) + 1)
  /\ [][ (pc = "related" /\ WorkerStep) =>
           \/ pc' = "decide"
           \/ pc' = "related" /\ related_left' < related_left ]_vars
  /\ [][ (pc = "related" /\ WorkerStep /\ call' = "extract") =>
           \E u \in URLs \ related_urls_in_this_batch :
             related_urls_in_this_batch' = related_urls_in_this_batch \cup {u} ]_vars

\* Every candidate of the related search was extracted: the bound is met.
C15_Witness ==
  /\ pc = "related"
  /\ related_left = 0
  /\ Cardinality(related_urls_in_this_batch)
       = Min(2 * (max_articles_to_combine - 1), 5) + 1

\* C16: with a primary article that has the target word count, the aggregation
\* returns the primary alone, as it got it, and makes no remote call.
C16_EarlyReturn ==
  [][ (pc = "agg" /\ WorkerStep
         /\ primary_article_data.word_count >= min_post_word_count) =>
        /\ all_articles_data' = << primary_article_data >>
        /\ pc' = "decide"
        /\ call' = "none"
        /\ fault' = "none" ]_vars

\* The primary has exactly the target word count and more articles were allowed.
C16_Witness ==
  /\ pc = "decide"
  /\ Len(all_articles_data) = 1
  /\ all_articles_data[1].word_count = min_post_word_count
  /\ max_articles_to_combine > 1

\* C17: the batch never has more than max(1, max_articles) entries, the running
\* total is the sum of its members' word counts, and a pass of the loop that
\* finds the batch full, the target reached or no candidate left returns
\* without an extraction.
C17_AggregateStopsWhenFull ==
  /\ [](InAggregate =>
          /\ Len(all_articles_data)
               <= (IF max_articles_to_combine > 1 THEN max_articles_to_combine ELSE 1)
          /\ (pc = "related" => current_total_words = SumWords(all_articles_data)))
  /\ [][ (pc = "related" /\ WorkerStep
             /\ \/ Len(all_articles_data) >= max_articles_to_combine
                \/ current_total_words >= min_post_word_count
                \/ related_left = 0) =>
           /\ pc' = "decide"
           /\ call' = "none"
           /\ all_articles_data' = all_articles_data ]_vars

\* The batch is full, the target is not reached and a candidate is left.
C17_Witness ==
  /\ pc = "related"
  /\ Len(all_articles_data) = max_articles_to_combine
  /\ current_total_words < min_post_word_count
  /\ related_left > 0
  /\ ~stop_event

\* C18: every supporting article of a batch has at least 200 words; a pass that
\* extracts a shorter one leaves batch and running total alone and goes on with
\* the next candidate.
C18_ShortRelatedDiscarded ==
  /\ [](InAggregate =>
          \A i \in SupportingIndexes : all_articles_data[i].word_count >= 200)
  /\ [][ (pc = "related" /\ WorkerStep /\ fault' = "insufficient") =>
           /\ UNCHANGED << all_articles_data, current_total_words >>
           /\ pc' = "related"
           /\ related_left' = related_left - 1 ]_vars

\* A related article of 100 to 199 words was just discarded, another candidate
\* is left.
C18_Witness ==
  /\ pc = "related"
  /\ fault = "insufficient"
  /\ call = "extract"
  /\ related_left > 0
  /\ Len(all_articles_data) = 1

\* C19: an iteration visits at most 3 candidates, one after the other; a post
\* succeeds only in an iteration that has not posted yet and ends the candidate
\* loop at once; after it the worker extracts, rewrites and publishes nothing
\* more until the discovery of the next iteration.
C19_OnePostPerIteration ==
  /\ [](sites_left \in 0..3)
  /\ [][ (pc = "cand" /\ pc' = "fallback") => sites_left' = sites_left - 1 ]_vars
  /\ [][ PublishReturns("ok") =>
           /\ ~posted_article_in_this_iteration
           /\ posted_article_in_this_iteration'
           /\ pc' = "after" ]_vars
  /\ [][ (posted_article_in_this_iteration /\ WorkerStep) =>
           /\ call' \notin {"extract", "build", "enhance", "video", "publish"}
           /\ (call' = "discover" => pc = "discover")
           /\ (~posted_article_in_this_iteration' => pc = "discover") ]_vars

\* The first candidate was published and another one is left unvisited.
C19_Witness ==
  /\ publish_result = "ok"
  /\ pc = "after"
  /\ sites_left > 0
  /\ posted_article_in_this_iteration
  /\ ~stop_event

\* C20: a batch reaches the video search and the Publisher only with a combined
\* word count of at least min_post_word_count; a batch that falls short is
\* dropped without a remote call, the ledger stays as it is and the candidate
\* loop goes on.
C20_ShortBatchNotPublished ==
  /\ [](pc \in {"video", "publish"} =>
          SumWords(all_articles_data) >= min_post_word_count)
  /\ [][ (pc = "decide" /\ WorkerStep
             /\ SumWords(all_articles_data) < min_post_word_count) =>
           /\ pc' = "cand"
           /\ call' = "none"
           /\ publish_result' = "none"
           /\ UNCHANGED << ledger_vars, sites_left, error_count >> ]_vars

\* In the first iteration a candidate fell short, with another candidate left.
C20_Witness ==
  /\ fault = "insufficient"
  /\ pc = "cand"
  /\ call = "none"
  /\ sites_left > 0
  /\ current_query_index = 1
  /\ publish_count = [u \in URLs |-> 0]

\* C23: every URL of a successfully published batch is in the set obtained by
\* reloading the ledger from its file, as a restarted process does.
C23_PublishedUrlsAreReloaded ==
  PublishedUrls \subseteq load_posted_urls(posted_file)

\* C27: for a candidate whose URL is in the ledger the worker makes no remote
\* call (no extraction, no enumeration of its linked articles) and goes on to
\* the tests that lead to the next candidate.
C27_LedgerCandidateIsSkipped ==
  [][ (pc = "fallback" /\ ddg_url \in posted_urls /\ WorkerStep) =>
        (call' = "none" /\ pc' = "gate") ]_vars

\* C28: once cancellation has been requested, the steps that follow the
\* obtaining of a primary article (enhancement, related-article discovery and
\* extraction, video search, publish) make no remote call.
C28_NoRemoteCallAfterCancellation ==
  [][ (stop_event /\ WorkerStep
       /\ pc \in {"enhance", "agg", "related", "decide", "video", "publish"}) =>
        call' = "none" ]_vars

\* C29: the exception handler raises the counter by exactly one; while the
\* counter stays below 7 the worker goes into a wait of 300 seconds, which ends
\* the loop when cancellation is requested and otherwise returns to the loop
\* test; without cancellation a next iteration eventually starts.
C29_LoopContinuesAfterException ==
  /\ [][ (error_count' > error_count) =>
           /\ error_count' = error_count + 1
           /\ error_count' < max_errors_in_row =>
                (pc' = "backoff" /\ wait_timeout' = BackoffSeconds) ]_vars
  /\ [][ (pc = "backoff" /\ WorkerStep) =>
           pc' = IF stop_event THEN "finished" ELSE "while" ]_vars
  /\ (pc = "backoff") ~> (pc = "creds" \/ stop_event)

\* The worker backs off after the sixth exception in a row.
C29_Witness ==
  /\ pc = "backoff"
  /\ error_count = max_errors_in_row - 1
  /\ wait_timeout = BackoffSeconds
  /\ ~stop_event

\* A reply with which the enhancement fails: no key, a failed call, a reply
\* that does not parse to an object, or a field of the wrong type.
EnhancementFails(reply) ==
  reply.kind # "object" \/ (reply.has_text /\ ~reply.text_is_string)

\* C21: the enhancer never raises, and when the key is not configured, the call
\* fails or the reply is malformed it returns the record it was given with
\* every field unchanged.
C21_FailedEnhancementReturnsInput ==
  (fn = "enhance" /\ fn_done) =>
    /\ ~ret.raised
    /\ ~ret.none
    /\ EnhancementFails(arg.reply) => ret.value = arg.article_data

\* The reply carries a new title and a text that is no string: the title was
\* already written into the copy when the failure came.
C21_Witness ==
  /\ fn = "enhance"
  /\ fn_done
  /\ arg.reply.kind = "object"
  /\ arg.reply.has_title
  /\ arg.reply.has_text
  /\ ~arg.reply.text_is_string
  /\ arg.article_data.title # strip(seo_title)
  /\ ret.value = arg.article_data

\* C22: every record returned by the extractor or by the enhancer has a
\* word_count equal to the number of word tokens of its text.
C22_WordCountMatchesText ==
  (fn \in {"scrape", "enhance"} /\ fn_done /\ ~ret.raised /\ ~ret.none) =>
    ret.value.word_count = count_words(ret.value.text)

\* A reply without the text field: the text of the record is the stripped
\* original and the count is taken from it.
C22_Witness ==
  /\ fn = "enhance"
  /\ fn_done
  /\ arg.reply.kind = "object"
  /\ ~arg.reply.has_text
  /\ arg.reply.has_title
  /\ arg.article_data.text.padded
  /\ ret.value.text = strip(arg.article_data.text)
  /\ ret.value.word_count = arg.article_data.word_count

\* C26: the extractor never raises; it returns nothing when the title is
\* empty, the text is empty, the text has fewer than 100 words, the download,
\* the parse or the building of the record fails, or cancellation comes during
\* the wait; a record it returns has a title, a text and at least 100 words.
C26_ExtractorRejects ==
  (fn = "scrape" /\ fn_done) =>
    /\ ~ret.raised
    /\ ( \/ arg.page.title = Str("", FALSE)
         \/ arg.page.text = Text(0, FALSE)
         \/ count_words(arg.page.text) < MinSingleWords
         \/ arg.page.outcome \in {"download_error", "parse_error", "cancelled",
                                  "record_error"} ) => ret.none
    /\ ~ret.none =>
         /\ ret.value.title # Str("", FALSE)
         /\ ret.value.text # Text(0, FALSE)
         /\ ret.value.word_count >= MinSingleWords

\* A page with a long text and no title is rejected.
C26_Witness ==
  /\ fn = "scrape"
  /\ fn_done
  /\ arg.page.outcome = "ok"
  /\ arg.page.title = Str("", FALSE)
  /\ arg.page.text.words >= MinSingleWords
  /\ ret.none

\* C24: discovery never raises; it returns at most num_results hits, in the
\* order of the provider's page and each of them a result of that page; on a
\* network failure, a parse failure or a page without a relevant result it
\* returns the empty sequence.
C24_DiscoverIsBoundedAndOrdered ==
  (fn = "discover" /\ fn_done) =>
    /\ ~ret.raised
    /\ ~ret.none
    /\ Len(ret.value) <= arg.num_results
    /\ \A i \in 1..Len(ret.value) :
         /\ ret.value[i].rank \in 1..Len(arg.results)
         /\ arg.results[ret.value[i].rank].usable
         /\ i > 1 => ret.value[i - 1].rank < ret.value[i].rank
    /\ arg.outcome # "ok" => ret.value = << >>
    /\ (\A i \in 1..Len(arg.results) :
          ~(arg.results[i].usable
            /\ (arg.query_is_short \/ arg.results[i].is_relevant)))
         => ret.value = << >>

\* The page holds more relevant results than asked for: the first two are
\* returned and a later one is left out.
C24_Witness ==
  /\ fn = "discover"
  /\ fn_done
  /\ arg.outcome = "ok"
  /\ ~arg.query_is_short
  /\ arg.num_results = 2
  /\ Len(arg.results) = 4
  /\ ~arg.results[1].usable
  /\ \A i \in 2..4 : arg.results[i].usable /\ arg.results[i].is_relevant
  /\ ret.value = << [rank |-> 2], [rank |-> 3] >>

\* The positions of the caller's list whose trimmed label is the first of its
\* kind, is not empty and is no baseline label.
NewLabelPositions(labels_list) ==
  {i \in 1..Len(labels_list) :
     /\ strip(labels_list[i]) # Str("", FALSE)
     /\ \A b \in 1..Len(BaselineLabels) : strip(labels_list[i]) # BaselineLabels[b]
     /\ \A j \in 1..(i - 1) : strip(labels_list[j]) # strip(labels_list[i])}

\* C25: the label list of a post starts with the four baseline labels, holds
\* no label twice, has at most 20 entries, and after the baseline holds the
\* caller's labels that are not empty after trimming, trimmed, each once, in
\* the caller's order, as far as the cap of 20 allows.
C25_LabelListIsMergedAndCapped ==
  (fn = "labels" /\ fn_done) =>
    LET final == ret.value
        new == NewLabelPositions(arg.labels_list)
        added == Len(final) - Len(BaselineLabels)
    IN
    /\ ~ret.raised
    /\ SubSeq(final, 1, 4) =
         << Str("Tech News", FALSE), Str("AI Update", FALSE),
            Str("Gadget Review", FALSE), Str("Automated Post", FALSE) >>
    /\ \A i, j \in 1..Len(final) : final[i] = final[j] => i = j
    /\ Len(final) <= 20
    /\ added = IF Cardinality(new) < 16 THEN Cardinality(new) ELSE 16
    /\ \A k \in 1..added :
         \E i \in new :
           /\ Cardinality({j \in new : j < i}) = k - 1
           /\ final[4 + k] = strip(arg.labels_list[i])

\* A list with a repeated label, a blank one and more new labels than fit: the
\* list is full and the last new label is left out.
C25_Witness ==
  /\ fn = "labels"
  /\ fn_done
  /\ Len(ret.value) = 20
  /\ Cardinality(NewLabelPositions(arg.labels_list)) > 16
  /\ arg.labels_list[1] = Str("2", FALSE)
  /\ arg.labels_list[2] = Str("", TRUE)
  /\ ret.value[5] = Str("2", FALSE)
  /\ ret.value[6] = Str("1", FALSE)
  /\ ret.value[7] = Str("3", FALSE)

\* C30: the related-article query is made of up to 2 of the primary's enhanced
\* keywords, or, when ai_keywords is empty and raw keywords exist, of up to 2
\* raw keywords, then the title and the fixed suffix, with repeated terms
\* dropped after their first occurrence.
C30_QueryFallsBackToRawKeywords ==
  (fn = "query" /\ fn_done) =>
    LET d == arg.initial_article_data IN
    ret.value = query_terms(IF d.ai_keywords # << >> THEN d.ai_keywords
                            ELSE d.keywords,
                            d.title)

\* C34: in the source-page fallback an extraction is only started while fewer
\* than 2 have been made; a failed one counts, a linked URL of the ledger is
\* passed over without a call and without counting; the first extraction that
\* succeeds ends the fallback with a primary article that is not in the ledger;
\* a fallback that ends without one leads to the next candidate.
C34_FallbackBudget ==
  /\ [][ (pc = "sub" /\ WorkerStep) =>
           /\ call' \in {"none", "extract"}
           /\ call' = "extract" =>
                /\ processed_from_source < 2
                /\ subs_left > 0
                /\ \/ /\ pc' = "gate"
                      /\ primary_article_data' # None
                      /\ primary_article_data'.url \notin posted_urls
                   \/ /\ pc' = "sub"
                      /\ primary_article_data' = None
                      /\ processed_from_source' = processed_from_source + 1
                      /\ subs_left' = subs_left - 1
           /\ (call' = "none" /\ pc' = "sub") =>
                /\ processed_from_source' = processed_from_source
                /\ subs_left' = subs_left - 1
           /\ pc' \in {"sub", "gate"} ]_vars
  /\ [][ (pc = "gate" /\ WorkerStep /\ primary_article_data = None /\ ~stop_event) =>
           pc' = "cand" ]_vars

\* Two extractions have failed and the page has a further link, which is not
\* tried.
C34_Witness ==
  /\ pc = "sub"
  /\ processed_from_source = 2
  /\ subs_left > 0
  /\ primary_article_data = None
  /\ ~stop_event

\* C37: during the aggregation the running total is the sum of the word counts
\* of the batch and does not decrease; the first member of the batch is the
\* primary article and a step only appends to the batch; the total that the
\* worker loop compares with the target is the running total.
C37_RunningTotalIsBatchSum ==
  /\ [][ (pc' \in {"related", "decide"} /\ WorkerStep) =>
           /\ current_total_words' = SumWords(all_articles_data')
           /\ all_articles_data'[1] = primary_article_data'
           /\ pc = "related" =>
                /\ current_total_words' >= current_total_words
                /\ Len(all_articles_data') \in
                     {Len(all_articles_data), Len(all_articles_data) + 1}
                /\ SubSeq(all_articles_data', 1, Len(all_articles_data))
                     = all_articles_data ]_vars
  /\ [](pc = "decide" => final_words = current_total_words)

\* The worker compares the total of a batch of three articles with the target.
C37_Witness ==
  /\ pc = "decide"
  /\ Len(all_articles_data) = 3
  /\ all_articles_data[1] = primary_article_data
  /\ current_total_words = all_articles_data[1].word_count
       + all_articles_data[2].word_count + all_articles_data[3].word_count

\* C38: in a batch of k > 1 articles that the aggregation returns, the first
\* k - 1 articles together have fewer words than the target.
C38_NoSuperfluousArticle ==
  (pc = "decide" /\ Len(all_articles_data) > 1) =>
    SumWords(SubSeq(all_articles_data, 1, Len(all_articles_data) - 1))
      < min_post_word_count

\* A batch of three that meets the target only with its last member.
C38_Witness ==
  /\ pc = "decide"
  /\ Len(all_articles_data) = 3
  /\ SumWords(all_articles_data) >= min_post_word_count
  /\ SumWords(SubSeq(all_articles_data, 1, 2)) < min_post_word_count

\* C33: a step of the worker changes the query cursor only when it passes the
\* credential check, and then it picks query number cursor mod 12 and moves the
\* cursor on by one; so the query in use is always that of the number of
\* passed checks before it, modulo 12, whatever the iterations came to.
C33_QueryCursorRotates ==
  /\ [][ WorkerStep =>
           IF pc = "creds" /\ credentials_usable
             THEN /\ search_query' = current_query_index % 12
                  /\ current_query_index' = current_query_index + 1
             ELSE /\ search_query' = search_query
                  /\ current_query_index' = current_query_index ]_vars
  /\ [](current_query_index > 0 =>
          search_query = (current_query_index - 1) % 12)

\* The thirteenth iteration starts with the first query again, after an
\* iteration that ended in an exception.
C33_Witness ==
  /\ pc = "discover"
  /\ current_query_index = 13
  /\ search_query = 0
  /\ error_count > 0

\* C35: when the candidate loop was left without cancellation, the worker
\* waits the post interval after an iteration that posted and the smaller of
\* the post interval and 15 minutes after one that did not, which is never
\* more than after one that posted.
C35_InterIterationWait ==
  [][ (pc = "after" /\ WorkerStep /\ ~stop_event) =>
        /\ pc' = "wait"
        /\ posted_article_in_this_iteration =>
             wait_timeout' = post_interval_minutes * 60
        /\ ~posted_article_in_this_iteration =>
             /\ wait_timeout' =
                  IF post_interval_minutes * 60 < 15 * 60
                    THEN post_interval_minutes * 60 ELSE 15 * 60
             /\ wait_timeout' <= post_interval_minutes * 60 ]_vars

\* With an interval of 10 minutes the worker waits 10 minutes after an
\* iteration without a post.
C35_Witness ==
  /\ pc = "wait"
  /\ ~posted_article_in_this_iteration
  /\ post_interval_minutes = 10
  /\ wait_timeout = 600

\* C31: a result without a topical term in its title and URL is kept exactly
\* when the query has fewer than 3 terms; a result with a topical term is kept
\* for every query.
C31_BroadQueryKeepsIrrelevantHit ==
  (fn = "hit" /\ fn_done /\ arg.result.has_title /\ arg.result.href = "direct") =>
    IF arg.result.title_is_relevant \/ arg.result.url_is_relevant
      THEN ~ret.none
      ELSE ~ret.none <=> arg.query.terms < 3

\* C32: a redirect link of the provider with a title and a topical term is
\* returned as a hit with the URL of its target, and a link to the provider
\* itself is not returned.
C32_WrapperLinkIsResolved ==
  (fn = "hit" /\ fn_done) =>
    /\ ( /\ arg.result.href = "wrapper"
         /\ arg.result.has_title
         /\ arg.result.title_is_relevant \/ arg.result.url_is_relevant )
       => (~ret.none /\ ret.value.url = "target")
    /\ arg.result.href = "provider" => ret.none

\* C36: a call of the enhancer leaves the record it was handed as it was, and
\* a successful one returns a record with the same fields that differs from it
\* at most in title, text, ai_keywords, ai_meta_description and word_count: url,
\* summary, authors, publish_date, images and keywords are those of the input.
C36_EnhanceFrame ==
  [][ (fn = "enhance" /\ ~fn_done /\ fn_done') =>
        /\ arg' = arg
        /\ ~EnhancementFails(arg.reply) =>
             /\ DOMAIN ret'.value = DOMAIN arg.article_data
             /\ \A f \in DOMAIN arg.article_data \
                         {"title", "text", "ai_keywords", "ai_meta_description",
                          "word_count"} :
                  ret'.value[f] = arg.article_data[f]
             /\ ret'.value.url = arg.article_data.url
             /\ ret'.value.keywords = arg.article_data.keywords ]_vars

\* A reply with all four fields: title, text, keywords and word count of the
\* returned record are new, its url and raw keywords are the input's.
C36_Witness ==
  /\ fn = "enhance"
  /\ fn_done
  /\ arg.reply.kind = "object"
  /\ arg.reply.has_title /\ arg.reply.has_text /\ arg.reply.text_is_string
  /\ arg.reply.has_keywords /\ arg.reply.has_meta
  /\ ret.value.title # arg.article_data.title
  /\ ret.value.text # arg.article_data.text
  /\ ret.value.word_count # arg.article_data.word_count
  /\ ret.value.ai_keywords # << >>
  /\ ret.value.url = arg.article_data.url
  /\ ret.value.keywords = arg.article_data.keywords

====
